---- MODULE Spec2Model ----
(***************************************************************************)
(* Model of claude_sdk: the JSONL file parser (parser.py), the session     *)
(* models and their metadata (models.py, session.py), the public load()    *)
(* entry point (__init__.py) and the conversation-tree walk of             *)
(* examples/message_filtering.py.                                          *)
(*                                                                         *)
(* The specifications share the variables:                                 *)
(*   Spec         one call of load(path): parse_jsonl_file streams the     *)
(*                file, parse_session_file collects it,                    *)
(*                parse_complete_session assembles, load converts;         *)
(*   SpecSession  a ParsedSession built directly from records, on which    *)
(*                calculate_metadata is called;                            *)
(*   SpecTree     an assembled session whose conversation tree is walked   *)
(*                by get_thread_depth.                                     *)
(*   SpecAssemble from_message_records, reached through load(path) or      *)
(*                called directly with a session_id override;              *)
(*   SpecOps      a session constructed directly, on which                 *)
(*                validate_session_integrity, get_main_chain and           *)
(*                get_messages_by_role are called;                         *)
(*   SpecAll      parse_all_sessions over the discovered files;            *)
(*   SpecProject  the aggregate properties of a Project;                   *)
(*   SpecValidate load(path) over lines that exercise the field            *)
(*                constraints and the closed schema of MessageRecord;      *)
(*   SpecDuration Session.duration of an assembled session;                *)
(*   SpecCalls    the read operations, field assignments and               *)
(*                SessionMetadata construction on a session;               *)
(*   SpecGenerator parse_jsonl_file driven by a consumer that may stop     *)
(*                before the end of the file;                              *)
(*   SpecInterleave several parse_jsonl_file generators advanced in any    *)
(*                interleaving.                                            *)
(* Optional values are <<>> (None) or <<v>>.  cost_usd is counted in       *)
(* integer units; float rounding is not modelled.                          *)
(***************************************************************************)
EXTENDS Integers, Sequences, FiniteSets, TLC

VARIABLES
    fstatus,    \* what the path refers to: "missing", "not_file", "ok"
    lines,      \* the lines of the file
    pc,         \* position of the parse_jsonl_file generator
    pos,        \* number of lines the generator has consumed
    handle,     \* TRUE while the file object of the with-block is open
    yielded,    \* records the generator has handed to its consumer
    genExc,     \* exception that left parse_jsonl_file, "none" if none
    psf,        \* outcome of parse_session_file
    pcs,        \* outcome of parse_complete_session
    ld,         \* outcome of load
    records,    \* argument of Session.from_message_records (SpecTree)
    session,    \* the session under study (SpecSession, SpecTree)
    meta,       \* result of the last calculate_metadata call
    metaCalled, \* TRUE once calculate_metadata has returned
    tpc,        \* position of the tree walk of analyze_messages
    rootIdx,    \* roots already handed to get_thread_depth
    stack,      \* call stack of get_thread_depth
    visits,     \* how often get_thread_depth was entered, per uuid
    max_depth,  \* the nonlocal max_depth of analyze_messages
    session_id, \* session_id argument of Session.from_message_records
    verdict,    \* last result of validate_session_integrity, None before
    mainChain,  \* last result of get_main_chain, None before
    byRole,     \* last result of get_messages_by_role, per role argument
    ret,        \* outcome of the last other call: operation, exception, value
    project,    \* the sessions of the project under study (SpecProject)
    agg,        \* the project property read last and its value
    files,      \* the files discover_sessions found (SpecAll)
    fileIdx,    \* files parse_all_sessions has dealt with
    results,    \* the results dict of parse_all_sessions, by file index
    errorLog,   \* files for which parse_all_sessions called logger.error
    pas,        \* outcome of parse_all_sessions
    gens        \* the parse_jsonl_file generators running side by side

vars == <<fstatus, lines, pc, pos, handle, yielded, genExc, psf, pcs, ld,
          records, session, meta, metaCalled, tpc, rootIdx, stack, visits, max_depth,
          session_id, verdict, mainChain, byRole, ret, project, agg,
          files, fileIdx, results, errorLog, pas, gens>>

parserVars == <<fstatus, lines, pc, pos, handle, yielded, genExc, psf, pcs, ld>>
sessionVars == <<records, session, meta, metaCalled>>
walkVars == <<tpc, rootIdx, stack, visits, max_depth>>
callVars == <<session_id, verdict, mainChain, byRole, ret>>
projectVars == <<project, agg>>
allVars == <<files, fileIdx, results, errorLog, pas>>
restVars == <<callVars, projectVars, allVars, gens>>

(***************************************************************************)
(* Bounds                                                                  *)
(***************************************************************************)
MaxLines == 3
MaxMsgs == 2
MaxRecs == 3
RecursionLimit == 2
MaxFiles == 2
MaxFileLines == 1
MaxSessions == 3
MaxStrictLines == 2

(***************************************************************************)
(* Values                                                                  *)
(***************************************************************************)
None == <<>>
Some(v) == <<v>>

SeqsUpTo(S, n) == UNION {[1..k -> S] : k \in 0..n}

RECURSIVE SumSeq(_)
SumSeq(s) == IF s = <<>> THEN 0 ELSE s[1] + SumSeq(Tail(s))

UUIDs == {1, 2, 3}
Roles == {"user", "assistant"}
NoRead == [prop |-> "none", value |-> None]
NoCall == [op |-> "none", exc |-> "none", value |-> None]
ToolNames == {"bash", "read"}

TextBlock == [type |-> "text", name |-> ""]
ThinkingBlock == [type |-> "thinking", name |-> ""]
ToolUseBlock(n) == [type |-> "tool_use", name |-> n]

MessageRecord(u, p, side, role, sid, cost, content) ==
    [uuid |-> u, parent_uuid |-> p, is_sidechain |-> side, role |-> role,
     session_id |-> sid, cost_usd |-> cost, content |-> content,
     duration_ms |-> None, timestamp |-> 0]

\* SessionMetadata() with its field defaults
DefaultMetadata == [total_cost |-> 0, total_messages |-> 0, tool_usage_count |-> <<>>]

\* ConversationTree of no records
EmptyTree == [root_messages |-> <<>>, parent_to_children |-> <<>>]

ParsedSession(sid, msgs, tree, md) ==
    [session_id |-> sid, messages |-> msgs, conversation_tree |-> tree, metadata |-> md]

NoSession == ParsedSession("", <<>>, EmptyTree, DefaultMetadata)

(***************************************************************************)
(* models.py: ParsedSession.calculate_metadata                             *)
(***************************************************************************)
\* truth value of "if message.cost_usd:"
Truthy(cost) == cost # None /\ cost[1] # 0

\* tool_usage_count[tool_name] = tool_usage_count.get(tool_name, 0) + 1
Incr(d, n) == IF n \in DOMAIN d THEN [d EXCEPT ![n] = @ + 1] ELSE d @@ (n :> 1)

\* the inner loop over message.message.content
RECURSIVE CountBlocks(_, _)
CountBlocks(content, d) ==
    IF content = <<>> THEN d
    ELSE CountBlocks(Tail(content),
                     IF Head(content).type = "tool_use"
                     THEN Incr(d, Head(content).name) ELSE d)

\* the loop over self.messages, acc = (total_cost, tool_usage_count)
RECURSIVE MetadataPass(_, _)
MetadataPass(msgs, acc) ==
    IF msgs = <<>> THEN acc
    ELSE LET m == Head(msgs) IN
         MetadataPass(Tail(msgs),
            [total_cost |-> IF Truthy(m.cost_usd)
                            THEN acc.total_cost + m.cost_usd[1]
                            ELSE acc.total_cost,
             tool_usage_count |-> CountBlocks(m.content, acc.tool_usage_count)])

MetadataStart == [total_cost |-> 0, tool_usage_count |-> <<>>]

IsMainChain(m) == ~m.is_sidechain
IsAssistant(m) == m.role = "assistant"
HasCost(m) == Truthy(m.cost_usd)

\* mutant: total_messages counts only the messages that carry a cost
CalculateMetadata_CountCosted(msgs) ==
    LET r == MetadataPass(msgs, MetadataStart) IN
    [total_cost |-> r.total_cost,
     total_messages |-> Len(SelectSeq(msgs, HasCost)),
     tool_usage_count |-> r.tool_usage_count]

\* mutant: "total_cost = message.cost_usd" instead of "+="
CalculateMetadata_LastCost(msgs) ==
    LET r == MetadataPass(msgs, MetadataStart)
        costed == SelectSeq(msgs, HasCost) IN
    [total_cost |-> IF costed = <<>> THEN 0 ELSE costed[Len(costed)].cost_usd[1],
     total_messages |-> Len(msgs),
     tool_usage_count |-> r.tool_usage_count]

\* mutant: tool blocks of sidechain messages are not counted
CalculateMetadata_MainChainTools(msgs) ==
    LET r == MetadataPass(msgs, MetadataStart) IN
    [total_cost |-> r.total_cost,
     total_messages |-> Len(msgs),
     tool_usage_count |->
        MetadataPass(SelectSeq(msgs, IsMainChain), MetadataStart).tool_usage_count]

\* mutant: tool blocks are counted in assistant messages only
CalculateMetadata_AssistantTools(msgs) ==
    LET r == MetadataPass(msgs, MetadataStart) IN
    [total_cost |-> r.total_cost,
     total_messages |-> Len(msgs),
     tool_usage_count |->
        MetadataPass(SelectSeq(msgs, IsAssistant), MetadataStart).tool_usage_count]

CalculateMetadata(msgs) ==
    LET r == MetadataPass(msgs, MetadataStart) IN
    [total_cost |-> r.total_cost,
     total_messages |-> Len(msgs),
     tool_usage_count |-> r.tool_usage_count]

(***************************************************************************)
(* Session assembly.  ParsedSession.from_message_records and the fields of *)
(* ConversationTree follow the Session Assembler design (section 4.4 of    *)
(* the specification) and the docstring of Session.from_message_records.   *)
(***************************************************************************)
UuidsOf(msgs) == {msgs[i].uuid : i \in DOMAIN msgs}

AppendChild(d, p, c) ==
    IF p \in DOMAIN d THEN [d EXCEPT ![p] = Append(@, c)] ELSE d @@ (p :> <<c>>)

HasParentIn(m, present) == m.parent_uuid # None /\ m.parent_uuid[1] \in present

\* one linear pass: a record is a child of its parent if that parent is
\* among the records, a root otherwise
RECURSIVE TreePass(_, _, _)
TreePass(msgs, present, tree) ==
    IF msgs = <<>> THEN tree
    ELSE LET m == Head(msgs) IN
         TreePass(Tail(msgs), present,
            IF HasParentIn(m, present)
            THEN [tree EXCEPT !.parent_to_children = AppendChild(@, m.parent_uuid[1], m.uuid)]
            ELSE [tree EXCEPT !.root_messages = Append(@, m.uuid)])

\* mutant: a record whose parent is absent is dropped instead of made a root
RECURSIVE TreePassDropOrphans(_, _, _)
TreePassDropOrphans(msgs, present, tree) ==
    IF msgs = <<>> THEN tree
    ELSE LET m == Head(msgs) IN
         TreePassDropOrphans(Tail(msgs), present,
            IF HasParentIn(m, present)
            THEN [tree EXCEPT !.parent_to_children = AppendChild(@, m.parent_uuid[1], m.uuid)]
            ELSE IF m.parent_uuid = None
                 THEN [tree EXCEPT !.root_messages = Append(@, m.uuid)]
                 ELSE tree)

BuildTree_DropOrphans(msgs) == TreePassDropOrphans(msgs, UuidsOf(msgs), EmptyTree)

BuildTree(msgs) == TreePass(msgs, UuidsOf(msgs), EmptyTree)

\* mutant: the session id is taken from the last record, the override ignored
FromMessageRecords_LastRecord(msgs, override) ==
    IF msgs = <<>>
    THEN [exc |-> "ValueError", value |-> NoSession]
    ELSE [exc |-> "none",
          value |-> ParsedSession(msgs[Len(msgs)].session_id,
                                  msgs, BuildTree(msgs), CalculateMetadata(msgs))]

\* mutant: an empty record list gives a session without messages
FromMessageRecords_AllowsEmpty(msgs, override) ==
    [exc |-> "none",
     value |-> ParsedSession(IF override # None THEN override[1]
                             ELSE IF msgs = <<>> THEN "" ELSE msgs[1].session_id,
                             msgs, EmptyTree, DefaultMetadata)]

\* mutant: the duration is made chronological, never negative
SessionDuration_Absolute(msgs) ==
    IF msgs = <<>> THEN None
    ELSE LET dt == msgs[Len(msgs)].timestamp - msgs[1].timestamp IN
         Some(IF dt < 0 THEN 0 - dt ELSE dt)

\* session_duration: timestamp of the last record minus that of the first,
\* in list order
SessionDuration(msgs) ==
    IF msgs = <<>> THEN None
    ELSE Some(msgs[Len(msgs)].timestamp - msgs[1].timestamp)

\* the metadata of an assembled session: calculate_metadata plus the duration
AssembledMetadata(msgs) ==
    ("session_duration" :> SessionDuration(msgs)) @@ CalculateMetadata(msgs)

\* result of from_message_records: a session, or the ValueError of an
\* empty record list
FromMessageRecords(msgs, override) ==
    IF msgs = <<>>
    THEN [exc |-> "ValueError", value |-> NoSession]
    ELSE [exc |-> "none",
          value |-> ParsedSession(IF override # None THEN override[1]
                                  ELSE msgs[1].session_id,
                                  msgs, BuildTree(msgs), AssembledMetadata(msgs))]

\* session.py: Session.from_parsed_session copies the fields
FromParsedSession(s) ==
    ParsedSession(s.session_id, s.messages, s.conversation_tree, s.metadata)

(***************************************************************************)
(* parser.py: parse_jsonl_file, a generator                                *)
(***************************************************************************)
\* A line of the file is blank, malformed JSON text, JSON nested too deep
\* for json.loads, a JSON scalar, or a JSON object with the wire fields.
RawObject(u, sid, cost) ==
    [uuid |-> u, parentUuid |-> None, isSidechain |-> FALSE, role |-> "assistant",
     sessionId |-> sid, costUSD |-> cost, content |-> <<>>,
     durationMs |-> None, timestamp |-> 0]

SessionIds == {"s1", "s2"}

RawObjects ==
    {RawObject(u, sid, c) : u \in {1, 2}, sid \in SessionIds, c \in {None, Some(0), Some(2)}}

Lines == [kind : {"blank", "malformed", "deep", "scalar"}, obj : {RawObject(0, "s1", None)}]
         \cup [kind : {"object"}, obj : RawObjects]

\* exception raised by json.loads(line), "none" if it returns
JsonLoads(line) ==
    IF line.kind = "malformed" THEN "JSONDecodeError"
    ELSE IF line.kind = "deep" THEN "RecursionError"
    ELSE "none"

\* mutant: zero passes the range constraint (NonNegativeFloat / NonNegativeInt)
PositiveOrNone_ZeroAllowed(v) == v = None \/ v[1] >= 0

\* cost_usd: PositiveFloat | None, duration_ms: PositiveInt | None
PositiveOrNone(v) == v = None \/ v[1] > 0

\* the keys MessageRecord accepts, and those of a content block
RecordKeys == DOMAIN RawObject(0, "s1", None)
BlockKeys == {"type", "name"}

\* MessageContentBlock = TextBlock | ThinkingBlock | ToolUseBlock
MessageContentBlockTypes == {"text", "thinking", "tool_use"}

\* mutant: extra="ignore", keys the models do not declare are dropped
SchemaError_ExtraIgnored(obj) ==
    \E i \in DOMAIN obj.content : obj.content[i].type \notin MessageContentBlockTypes

\* extra="forbid" on every model, and the Literal type tag of each member
\* of the content union
SchemaError(obj) ==
    \/ DOMAIN obj # RecordKeys
    \/ \E i \in DOMAIN obj.content :
          \/ DOMAIN obj.content[i] # BlockKeys
          \/ obj.content[i].type \notin MessageContentBlockTypes

RangeError(obj) == ~PositiveOrNone(obj.costUSD) \/ ~PositiveOrNone(obj.durationMs)

\* mutant: the range constraints of costUSD and durationMs are not enforced
ModelValidateError_NoRange(line) ==
    IF line.kind # "object" THEN "ValidationError"
    ELSE IF SchemaError(line.obj) THEN "ValidationError"
    ELSE "none"

\* exception raised by MessageRecord.model_validate(json_data), "none" if it returns
ModelValidateError(line) ==
    IF line.kind # "object" THEN "ValidationError"
    ELSE IF SchemaError(line.obj) THEN "ValidationError"
    ELSE IF RangeError(line.obj) THEN "ValidationError"
    ELSE "none"

\* the record model_validate builds, field aliases resolved
ModelValidate(obj) ==
    [MessageRecord(obj.uuid, obj.parentUuid, obj.isSidechain, obj.role,
                   obj.sessionId, obj.costUSD, obj.content)
        EXCEPT !.duration_ms = obj.durationMs, !.timestamp = obj.timestamp]

\* exception raised inside the per-line try block, "none" if the record is yielded
TryBody(line) ==
    IF JsonLoads(line) # "none" THEN JsonLoads(line) ELSE ModelValidateError(line)

\* mutant: only the two named except clauses, no "except Exception"
InnerHandler_NoCatchAll(e) ==
    IF e \in {"JSONDecodeError", "ValidationError"} THEN "continue" ELSE "propagate"

\* the except clauses of the per-line try: all three continue
InnerHandler(e) ==
    IF e = "JSONDecodeError" THEN "continue"
    ELSE IF e = "ValidationError" THEN "continue"
    ELSE "continue"

IsOSError(e) == e \in {"OSError", "PermissionError", "FileNotFoundError"}

\* except (OSError, PermissionError) around the with-block
OuterHandler(e) == IF IsOSError(e) THEN "ParseError" ELSE e

\* mutant: a missing file raises FileNotFoundError, as load's docstring announces
PathError_FileNotFound(status) ==
    IF status = "missing" THEN "FileNotFoundError"
    ELSE IF status = "not_file" THEN "ParseError"
    ELSE "none"

\* the exists() / is_file() checks before the try
PathError(status) ==
    IF status = "missing" THEN "ParseError"
    ELSE IF status = "not_file" THEN "ParseError"
    ELSE "none"

\* parse_session_file: except ParseError: raise / except Exception: raise ParseError
SessionFileHandler(e) == IF e = "ParseError" THEN e ELSE "ParseError"

\* parse_complete_session: the same two clauses
CompleteSessionHandler(e) == IF e = "ParseError" THEN e ELSE "ParseError"

Pending(v) == [status |-> "pending", exc |-> "none", value |-> v]
Returned(v) == [status |-> "returned", exc |-> "none", value |-> v]
Raised(e, v) == [status |-> "raised", exc |-> e, value |-> v]

\* mutant: on a failure the records collected so far are returned
SessionFileFailure_Partial(e, collected) == Returned(collected)

\* parse_session_file when list(parse_jsonl_file(...)) raises e after
\* `collected` records: the list under construction is discarded
SessionFileFailure(e, collected) == Raised(SessionFileHandler(e), <<>>)

CheckPath ==
    /\ pc = "start"
    /\ IF PathError(fstatus) # "none"
       THEN /\ pc' = "raised"
            /\ genExc' = PathError(fstatus)
       ELSE /\ pc' = "open"
            /\ UNCHANGED genExc
    /\ UNCHANGED <<fstatus, lines, pos, handle, yielded, psf, pcs, ld>>
    /\ UNCHANGED <<sessionVars, walkVars, restVars>>

OpenFile ==
    /\ pc = "open"
    /\ pc' = "loop"
    /\ handle' = TRUE
    /\ UNCHANGED <<fstatus, lines, pos, yielded, genExc, psf, pcs, ld>>
    /\ UNCHANGED <<sessionVars, walkVars, restVars>>

\* file_path.open raises (permissions, or the file vanished after the checks)
OpenFails ==
    /\ pc = "open"
    /\ \E e \in {"PermissionError", "FileNotFoundError"} :
          genExc' = OuterHandler(e)
    /\ pc' = "raised"
    /\ UNCHANGED <<fstatus, lines, pos, handle, yielded, psf, pcs, ld>>
    /\ UNCHANGED <<sessionVars, walkVars, restVars>>

\* one iteration of "for line_num, line in enumerate(f, 1)"
ReadLine ==
    /\ pc = "loop"
    /\ pos < Len(lines)
    /\ LET line == lines[pos + 1]
           e == TryBody(line) IN
       IF line.kind = "blank"
       THEN /\ pos' = pos + 1
            /\ UNCHANGED <<pc, handle, yielded, genExc>>
       ELSE IF e = "none"
       THEN /\ pos' = pos + 1
            /\ yielded' = Append(yielded, ModelValidate(line.obj))
            /\ UNCHANGED <<pc, handle, genExc>>
       ELSE IF InnerHandler(e) = "continue"
       THEN /\ pos' = pos + 1
            /\ UNCHANGED <<pc, handle, yielded, genExc>>
       ELSE /\ pc' = "raised"
            /\ genExc' = OuterHandler(e)
            /\ handle' = FALSE
            /\ UNCHANGED <<pos, yielded>>
    /\ UNCHANGED <<fstatus, lines, psf, pcs, ld>>
    /\ UNCHANGED <<sessionVars, walkVars, restVars>>

\* mutant: the file is opened without a with-block and stays open on failure
ReadFails_LeavesOpen ==
    /\ pc = "loop"
    /\ \E e \in {"OSError", "UnicodeDecodeError"} :
          /\ e = "UnicodeDecodeError" => pos < Len(lines)
          /\ genExc' = OuterHandler(e)
    /\ pc' = "raised"
    /\ UNCHANGED <<fstatus, lines, pos, handle, yielded, psf, pcs, ld>>
    /\ UNCHANGED <<sessionVars, walkVars, restVars>>

\* reading from the open file fails: an I/O error, or bytes that are not UTF-8
ReadFails ==
    /\ pc = "loop"
    /\ \E e \in {"OSError", "UnicodeDecodeError"} :
          /\ e = "UnicodeDecodeError" => pos < Len(lines)
          /\ genExc' = OuterHandler(e)
    /\ pc' = "raised"
    /\ handle' = FALSE
    /\ UNCHANGED <<fstatus, lines, pos, yielded, psf, pcs, ld>>
    /\ UNCHANGED <<sessionVars, walkVars, restVars>>

\* the file is exhausted: the with-block closes it and the generator returns
EndOfFile ==
    /\ pc = "loop"
    /\ pos = Len(lines)
    /\ pc' = "exhausted"
    /\ handle' = FALSE
    /\ UNCHANGED <<fstatus, lines, pos, yielded, genExc, psf, pcs, ld>>
    /\ UNCHANGED <<sessionVars, walkVars, restVars>>

(***************************************************************************)
(* parser.py: parse_session_file, parse_complete_session; __init__.py: load*)
(***************************************************************************)
SessionFileReturns ==
    /\ pc = "exhausted"
    /\ psf.status = "pending"
    /\ psf' = Returned(yielded)
    /\ UNCHANGED <<fstatus, lines, pc, pos, handle, yielded, genExc, pcs, ld>>
    /\ UNCHANGED <<sessionVars, walkVars, restVars>>

SessionFileRaises ==
    /\ pc = "raised"
    /\ psf.status = "pending"
    /\ psf' = SessionFileFailure(genExc, yielded)
    /\ UNCHANGED <<fstatus, lines, pc, pos, handle, yielded, genExc, pcs, ld>>
    /\ UNCHANGED <<sessionVars, walkVars, restVars>>

CompleteSessionAssembles ==
    /\ psf.status = "returned"
    /\ pcs.status = "pending"
    /\ LET r == FromMessageRecords(psf.value, None) IN
       pcs' = IF r.exc = "none" THEN Returned(r.value)
              ELSE Raised(CompleteSessionHandler(r.exc), NoSession)
    /\ UNCHANGED <<fstatus, lines, pc, pos, handle, yielded, genExc, psf, ld>>
    /\ UNCHANGED <<sessionVars, walkVars, restVars>>

CompleteSessionRaises ==
    /\ psf.status = "raised"
    /\ pcs.status = "pending"
    /\ pcs' = Raised(CompleteSessionHandler(psf.exc), NoSession)
    /\ UNCHANGED <<fstatus, lines, pc, pos, handle, yielded, genExc, psf, ld>>
    /\ UNCHANGED <<sessionVars, walkVars, restVars>>

LoadReturns ==
    /\ pcs.status = "returned"
    /\ ld.status = "pending"
    /\ ld' = Returned(FromParsedSession(pcs.value))
    /\ UNCHANGED <<fstatus, lines, pc, pos, handle, yielded, genExc, psf, pcs>>
    /\ UNCHANGED <<sessionVars, walkVars, restVars>>

\* load has no handler of its own
LoadRaises ==
    /\ pcs.status = "raised"
    /\ ld.status = "pending"
    /\ ld' = Raised(pcs.exc, NoSession)
    /\ UNCHANGED <<fstatus, lines, pc, pos, handle, yielded, genExc, psf, pcs>>
    /\ UNCHANGED <<sessionVars, walkVars, restVars>>

IdleSession ==
    /\ records = <<>>
    /\ session = NoSession
    /\ meta = DefaultMetadata
    /\ metaCalled = FALSE

IdleWalk ==
    /\ tpc = "idle"
    /\ rootIdx = 0
    /\ stack = <<>>
    /\ visits = [u \in UUIDs |-> 0]
    /\ max_depth = 0

IdleCalls ==
    /\ session_id = None
    /\ verdict = None
    /\ mainChain = None
    /\ byRole = [r \in Roles |-> None]
    /\ ret = NoCall

IdleProject ==
    /\ project = <<>>
    /\ agg = NoRead

IdleAll ==
    /\ files = <<>>
    /\ fileIdx = 0
    /\ results = <<>>
    /\ errorLog = <<>>
    /\ pas = Pending(<<>>)

IdleGens == gens = <<>>

IdleRest == IdleCalls /\ IdleProject /\ IdleAll /\ IdleGens

IdleParser ==
    /\ fstatus = "ok"
    /\ lines = <<>>
    /\ pc = "idle"
    /\ pos = 0
    /\ handle = FALSE
    /\ yielded = <<>>
    /\ genExc = "none"
    /\ psf = Pending(<<>>)
    /\ pcs = Pending(NoSession)
    /\ ld = Pending(NoSession)

Init ==
    /\ fstatus \in {"missing", "not_file", "ok"}
    /\ lines \in (IF fstatus = "ok" THEN SeqsUpTo(Lines, MaxLines) ELSE {<<>>})
    /\ pc = "start"
    /\ pos = 0
    /\ handle = FALSE
    /\ yielded = <<>>
    /\ genExc = "none"
    /\ psf = Pending(<<>>)
    /\ pcs = Pending(NoSession)
    /\ ld = Pending(NoSession)
    /\ IdleSession
    /\ IdleWalk
    /\ IdleRest

Next ==
    \/ CheckPath
    \/ OpenFile
    \/ OpenFails
    \/ ReadLine
    \/ ReadFails
    \/ EndOfFile
    \/ SessionFileReturns
    \/ SessionFileRaises
    \/ CompleteSessionAssembles
    \/ CompleteSessionRaises
    \/ LoadReturns
    \/ LoadRaises

Spec == Init /\ [][Next]_vars

(***************************************************************************)
(* SpecSession: calculate_metadata on a session built from records         *)
(***************************************************************************)
Contents ==
    {<<TextBlock>>,
     <<ToolUseBlock("bash")>>,
     <<ToolUseBlock("read")>>,
     <<ToolUseBlock("bash"), ToolUseBlock("bash")>>,
     <<ThinkingBlock, ToolUseBlock("bash"), ToolUseBlock("read")>>}

SessionRecords ==
    {MessageRecord(1, None, side, role, "s1", cost, content) :
        side \in BOOLEAN, role \in {"user", "assistant"},
        cost \in {None, Some(1), Some(2)}, content \in Contents}

\* mutant: the call also stores its result in session.metadata
CalculateMetadataCall_StoresResult ==
    /\ pc = "idle"
    /\ tpc = "idle"
    /\ meta' = CalculateMetadata(session.messages)
    /\ metaCalled' = TRUE
    /\ session' = [session EXCEPT !.metadata = CalculateMetadata(session.messages)]
    /\ UNCHANGED records
    /\ UNCHANGED <<parserVars, walkVars, restVars>>

\* session.calculate_metadata(): returns the metadata, stores nothing
CalculateMetadataCall ==
    /\ pc = "idle"
    /\ tpc = "idle"
    /\ meta' = CalculateMetadata(session.messages)
    /\ metaCalled' = TRUE
    /\ UNCHANGED <<records, session>>
    /\ UNCHANGED <<parserVars, walkVars, restVars>>

\* ParsedSession(session_id="s1", messages=msgs): tree and metadata default
InitSession ==
    /\ IdleParser
    /\ IdleWalk
    /\ records = <<>>
    /\ \E msgs \in SeqsUpTo(SessionRecords, MaxMsgs) :
          session = ParsedSession("s1", msgs, EmptyTree, DefaultMetadata)
    /\ meta = DefaultMetadata
    /\ metaCalled = FALSE
    /\ IdleRest

NextSession == CalculateMetadataCall

SpecSession == InitSession /\ [][NextSession]_vars

(***************************************************************************)
(* SpecTree: Session.from_message_records, then the tree walk of           *)
(* examples/message_filtering.py (analyze_messages, get_thread_depth)      *)
(***************************************************************************)
TreeRecords ==
    {MessageRecord(u, p, FALSE, "user", "s1", None, <<TextBlock>>) :
        u \in UUIDs, p \in {None} \cup {Some(q) : q \in UUIDs}}

\* session.py: Session.from_message_records(records, session_id)
Assemble ==
    /\ pc = "idle"
    /\ tpc = "idle"
    /\ records # <<>>
    /\ session' = FromParsedSession(FromMessageRecords(records, session_id).value)
    /\ tpc' = "walk"
    /\ UNCHANGED <<records, meta, metaCalled, rootIdx, stack, visits, max_depth>>
    /\ UNCHANGED <<parserVars, restVars>>

\* mutant: the lookup uses the uuid itself, which is never a key
Children_Unkeyed(tree, u) == <<>>

\* "if uuid_str in tree.parent_to_children: for child in ...[uuid_str]"
Children(tree, u) ==
    IF u \in DOMAIN tree.parent_to_children THEN tree.parent_to_children[u] ELSE <<>>

Max(a, b) == IF a >= b THEN a ELSE b

Frame(u, depth) == [uuid |-> u, depth |-> depth, next |-> 0]

\* "for root in tree.root_messages: get_thread_depth(root)"
WalkRoot ==
    /\ tpc = "walk"
    /\ stack = <<>>
    /\ rootIdx < Len(session.conversation_tree.root_messages)
    /\ LET root == session.conversation_tree.root_messages[rootIdx + 1] IN
          /\ stack' = <<Frame(root, 0)>>
          /\ visits' = [visits EXCEPT ![root] = @ + 1]
          /\ max_depth' = Max(max_depth, 0)
    /\ rootIdx' = rootIdx + 1
    /\ UNCHANGED <<tpc, sessionVars, parserVars, restVars>>

\* the recursive call get_thread_depth(child, depth + 1); the interpreter
\* raises RecursionError when the call stack is full
WalkChild ==
    /\ tpc = "walk"
    /\ stack # <<>>
    /\ LET top == stack[Len(stack)]
           kids == Children(session.conversation_tree, top.uuid) IN
       /\ top.next < Len(kids)
       /\ IF Len(stack) >= RecursionLimit
          THEN /\ tpc' = "raised"
               /\ stack' = <<>>
               /\ UNCHANGED <<visits, max_depth>>
          ELSE LET child == kids[top.next + 1] IN
               /\ stack' = Append([stack EXCEPT ![Len(stack)].next = @ + 1],
                                  Frame(child, top.depth + 1))
               /\ visits' = [visits EXCEPT ![child] = @ + 1]
               /\ max_depth' = Max(max_depth, top.depth + 1)
               /\ UNCHANGED tpc
    /\ UNCHANGED <<rootIdx, sessionVars, parserVars, restVars>>

\* the loop over the children is over: get_thread_depth returns
WalkReturn ==
    /\ tpc = "walk"
    /\ stack # <<>>
    /\ LET top == stack[Len(stack)] IN
       top.next = Len(Children(session.conversation_tree, top.uuid))
    /\ stack' = SubSeq(stack, 1, Len(stack) - 1)
    /\ UNCHANGED <<tpc, rootIdx, visits, max_depth, sessionVars, parserVars, restVars>>

WalkDone ==
    /\ tpc = "walk"
    /\ stack = <<>>
    /\ rootIdx = Len(session.conversation_tree.root_messages)
    /\ tpc' = "done"
    /\ UNCHANGED <<rootIdx, stack, visits, max_depth, sessionVars, parserVars, restVars>>

InitTree ==
    /\ IdleParser
    /\ IdleWalk
    /\ records \in SeqsUpTo(TreeRecords, MaxRecs) \ {<<>>}
    /\ session = NoSession
    /\ meta = DefaultMetadata
    /\ metaCalled = FALSE
    /\ IdleRest

NextTree ==
    \/ Assemble
    \/ WalkRoot
    \/ WalkChild
    \/ WalkReturn
    \/ WalkDone

SpecTree == InitTree /\ [][NextTree]_vars

(***************************************************************************)
(* SpecValidate: load(path) over files whose lines exercise the range      *)
(* constraints and the closed schema of MessageRecord                      *)
(***************************************************************************)
StrictContents ==
    {<<TextBlock>>,
     <<ToolUseBlock("bash")>>,
     <<TextBlock, [type |-> "image", name |-> ""]>>,
     <<[type |-> "tool_result", name |-> ""]>>,
     <<[type |-> "text", name |-> "", cache_control |-> 1]>>}

StrictObjects ==
    {[RawObject(1, "s1", c) EXCEPT !.durationMs = d] :
        c \in {None, Some(-1), Some(0), Some(2)}, d \in {None, Some(-1), Some(0), Some(5)}}
    \cup {[RawObject(1, "s1", None) EXCEPT !.content = ct] : ct \in StrictContents}
    \cup {("gitBranch" :> 1) @@ RawObject(1, "s1", None)}

StrictLines ==
    [kind : {"malformed"}, obj : {RawObject(0, "s1", None)}]
    \cup [kind : {"object"}, obj : StrictObjects]

InitValidate ==
    /\ fstatus = "ok"
    /\ lines \in SeqsUpTo(StrictLines, MaxStrictLines)
    /\ pc = "start"
    /\ pos = 0
    /\ handle = FALSE
    /\ yielded = <<>>
    /\ genExc = "none"
    /\ psf = Pending(<<>>)
    /\ pcs = Pending(NoSession)
    /\ ld = Pending(NoSession)
    /\ IdleSession
    /\ IdleWalk
    /\ IdleRest

SpecValidate == InitValidate /\ [][Next]_vars

(***************************************************************************)
(* SpecAssemble: from_message_records as the parser reaches it through     *)
(* load(path), or called directly with or without a session_id override    *)
(***************************************************************************)
AssembleRecords ==
    {MessageRecord(u, None, FALSE, "user", sid, None, <<TextBlock>>) :
        u \in {1, 2}, sid \in SessionIds}

Overrides == {None, Some("s1"), Some("s3")}

InitDirect ==
    /\ IdleParser
    /\ IdleWalk
    /\ records \in SeqsUpTo(AssembleRecords, MaxMsgs) \ {<<>>}
    /\ session = NoSession
    /\ meta = DefaultMetadata
    /\ metaCalled = FALSE
    /\ session_id \in Overrides
    /\ verdict = None
    /\ mainChain = None
    /\ byRole = [r \in Roles |-> None]
    /\ ret = NoCall
    /\ IdleProject
    /\ IdleAll
    /\ IdleGens

InitAssemble == Init \/ InitDirect

NextAssemble == Next \/ Assemble

SpecAssemble == InitAssemble /\ [][NextAssemble]_vars

(***************************************************************************)
(* Properties of the parser (Spec)                                         *)
(***************************************************************************)
\* a line that is well-formed JSON and passes MessageRecord validation
IsValidLine(line) ==
    /\ line.kind = "object"
    /\ line.obj.costUSD = None \/ line.obj.costUSD[1] > 0

RECURSIVE ValidRecords(_)
ValidRecords(ls) ==
    IF ls = <<>> THEN <<>>
    ELSE (IF IsValidLine(Head(ls)) THEN <<ModelValidate(Head(ls).obj)>> ELSE <<>>)
         \o ValidRecords(Tail(ls))

NumValidLines == Cardinality({i \in DOMAIN lines : IsValidLine(lines[i])})

\* C1: the parser returns exactly the records of the valid lines, one per
\* valid line and in file order; blank, malformed and schema-invalid lines
\* are skipped and parsing goes on.  The generator has yielded the records
\* of the valid lines among those it has consumed, and parse_session_file
\* returns the records of the valid lines of the whole file.
C1_ValidLinesInOrder ==
    /\ pc \in {"loop", "exhausted", "raised"} =>
          yielded = ValidRecords(SubSeq(lines, 1, pos))
    /\ pc = "exhausted" => pos = Len(lines)
    /\ psf.status = "returned" =>
          /\ psf.value = ValidRecords(lines)
          /\ Len(psf.value) = NumValidLines

C1_Witness ==
    /\ psf.status = "returned"
    /\ Len(lines) = 3
    /\ IsValidLine(lines[1])
    /\ lines[2].kind = "malformed"
    /\ IsValidLine(lines[3])
    /\ Len(psf.value) = 2

C3_NoPartialResultAnywhere ==
    pc = "raised" /\ genExc = "ParseError" =>
        /\ yielded = <<>>
        /\ psf.status # "returned"
        /\ psf.status = "raised" => psf.exc = "ParseError" /\ psf.value = <<>>

\* C3 amended: after a file-level failure parse_session_file (and with it
\* parse_complete_session and load) fails with a ParseError and returns no
\* record, however many records the generator had already yielded.
C3_SessionFileAllOrNothing ==
    pc = "raised" =>
        /\ psf.status # "returned" /\ pcs.status # "returned" /\ ld.status # "returned"
        /\ psf.status = "raised" => psf.exc = "ParseError" /\ psf.value = <<>>

C3_Witness ==
    /\ pc = "raised"
    /\ Len(yielded) >= 1
    /\ psf.status = "raised"

LineLevelExceptions == {"JSONDecodeError", "ValidationError", "RecursionError"}

C5_TotalMessagesIsRecordCount ==
    /\ pcs.status = "returned" =>
          /\ pcs.value.metadata.total_messages = Len(pcs.value.messages)
          /\ pcs.value.metadata.total_messages = NumValidLines
          /\ NumValidLines >= 1
    /\ ld.status = "returned" =>
          /\ ld.value.metadata.total_messages = Len(ld.value.messages)
          /\ ld.value.metadata.total_messages = NumValidLines

C5_Witness ==
    /\ ld.status = "returned"
    /\ Len(lines) = 3
    /\ ld.value.metadata.total_messages = 2

(***************************************************************************)
(* Properties of calculate_metadata (SpecSession)                          *)
(***************************************************************************)
CostOrZero(m) == IF m.cost_usd = None THEN 0 ELSE m.cost_usd[1]

\* number of Tool Use blocks named n in the content of message m
ToolBlocks(m, n) ==
    Cardinality({j \in DOMAIN m.content :
                    m.content[j].type = "tool_use" /\ m.content[j].name = n})

\* number of Tool Use blocks named n in the messages of msgs that satisfy P
ToolBlocksWhere(msgs, n, P(_)) ==
    SumSeq([i \in DOMAIN msgs |-> IF P(msgs[i]) THEN ToolBlocks(msgs[i], n) ELSE 0])

IsSidechain(m) == m.is_sidechain
IsUser(m) == m.role = "user"

Get(d, n) == IF n \in DOMAIN d THEN d[n] ELSE 0

RECURSIVE SumValues(_, _)
SumValues(d, keys) ==
    IF keys = {} THEN 0
    ELSE LET k == CHOOSE x \in keys : TRUE IN d[k] + SumValues(d, keys \ {k})

\* C6: total_cost is the sum of cost_usd over all messages, a message
\* without cost counting as zero; it is never negative and is zero when no
\* message carries a cost.
C6_TotalCostIsSum ==
    metaCalled =>
        LET msgs == session.messages IN
        /\ meta.total_cost = SumSeq([i \in DOMAIN msgs |-> CostOrZero(msgs[i])])
        /\ meta.total_cost >= 0
        /\ (\A i \in DOMAIN msgs : msgs[i].cost_usd = None) => meta.total_cost = 0

C6_Witness ==
    /\ metaCalled
    /\ Len(session.messages) = 2
    /\ session.messages[1].cost_usd = Some(2)
    /\ session.messages[2].cost_usd = None
    /\ meta.total_cost = 2

\* C7: the count of a tool is the number of its Tool Use blocks in main-chain
\* messages plus the number in sidechain messages; only tools that occur are
\* keys, every value is positive, and the values add up to the number of
\* Tool Use blocks of the session.
C7_ToolUsageCountsAllChains ==
    metaCalled =>
        LET msgs == session.messages
            d == meta.tool_usage_count IN
        /\ DOMAIN d \subseteq ToolNames
        /\ \A n \in ToolNames :
              /\ Get(d, n) = ToolBlocksWhere(msgs, n, IsMainChain)
                             + ToolBlocksWhere(msgs, n, IsSidechain)
              /\ n \in DOMAIN d <=> \E i \in DOMAIN msgs : ToolBlocks(msgs[i], n) > 0
        /\ \A n \in DOMAIN d : d[n] >= 1
        /\ SumValues(d, DOMAIN d) =
              SumSeq([i \in DOMAIN msgs |->
                        Cardinality({j \in DOMAIN msgs[i].content :
                                        msgs[i].content[j].type = "tool_use"})])

C7_Witness ==
    /\ metaCalled
    /\ Len(session.messages) = 2
    /\ session.messages[1].is_sidechain
    /\ ~session.messages[2].is_sidechain
    /\ ToolBlocks(session.messages[1], "bash") = 2
    /\ ToolBlocks(session.messages[2], "bash") = 1
    /\ Get(meta.tool_usage_count, "bash") = 3

\* C8 as stated: only Tool Use blocks in assistant messages are counted.
C8_OnlyAssistantBlocksCounted ==
    metaCalled =>
        \A n \in ToolNames :
            Get(meta.tool_usage_count, n) = ToolBlocksWhere(session.messages, n, IsAssistant)

\* C8 amended: a Tool Use block is counted whatever the role of its message;
\* the count of a tool is the number of its blocks in assistant messages plus
\* the number in user messages.
C8_BlocksCountedForEveryRole ==
    metaCalled =>
        \A n \in ToolNames :
            Get(meta.tool_usage_count, n) =
                ToolBlocksWhere(session.messages, n, IsAssistant)
                + ToolBlocksWhere(session.messages, n, IsUser)

C8_Witness ==
    /\ metaCalled
    /\ Len(session.messages) = 1
    /\ session.messages[1].role = "user"
    /\ ToolBlocks(session.messages[1], "read") = 1
    /\ Get(meta.tool_usage_count, "read") = 1

(***************************************************************************)
(* Properties of the conversation tree (SpecTree)                          *)
(***************************************************************************)
Occurrences(seq, u) == Cardinality({i \in DOMAIN seq : seq[i] = u})

Present == UuidsOf(records)

IsRootRecord(m) == m.parent_uuid = None \/ m.parent_uuid[1] \notin Present

DistinctUuids == \A i, j \in DOMAIN records : i # j => records[i].uuid # records[j].uuid

RecordOf(u) == records[CHOOSE i \in DOMAIN records : records[i].uuid = u]

\* the parent chain of the record with uuid u ends within n links
RECURSIVE ChainEnds(_, _)
ChainEnds(u, n) ==
    IF IsRootRecord(RecordOf(u)) THEN TRUE
    ELSE IF n = 0 THEN FALSE
    ELSE ChainEnds(RecordOf(u).parent_uuid[1], n - 1)

\* no cycle, and no chain of more records than the call stack can hold
ShallowForest == \A u \in Present : ChainEnds(u, RecursionLimit - 1)

Timestamps == {1, 2, 3, 4}

TimedRecords ==
    {[MessageRecord(u, None, FALSE, "user", "s1", None, <<TextBlock>>) EXCEPT !.timestamp = t] :
        u \in {1, 2}, t \in Timestamps}

Call(op, exc, value) == [op |-> op, exc |-> exc, value |-> value]

\* session.py: Session.duration returns self.metadata.session_duration
ReadDuration ==
    /\ pc = "idle"
    /\ session # NoSession
    /\ ret' = Call("duration", "none", session.metadata.session_duration)
    /\ UNCHANGED <<session_id, verdict, mainChain, byRole>>
    /\ UNCHANGED <<parserVars, sessionVars, walkVars, projectVars, allVars, gens>>

InitDuration ==
    /\ IdleParser
    /\ IdleWalk
    /\ IdleRest
    /\ records \in SeqsUpTo(TimedRecords, MaxMsgs) \ {<<>>}
    /\ session = NoSession
    /\ meta = DefaultMetadata
    /\ metaCalled = FALSE

NextDuration == Assemble \/ ReadDuration

SpecDuration == InitDuration /\ [][NextDuration]_vars

(***************************************************************************)
(* SpecAll: SessionParser.parse_all_sessions over the discovered files;    *)
(* each file goes through parse_session_file as above                      *)
(***************************************************************************)
AllLines ==
    [kind : {"malformed"}, obj : {RawObject(0, "s1", None)}]
    \cup [kind : {"object"}, obj : {RawObject(u, "s1", None) : u \in {1, 2}}]

\* what a discovered path refers to by the time it is parsed
AllFiles ==
    [fstatus : {"missing", "not_file"}, lines : {<<>>}]
    \cup [fstatus : {"ok"}, lines : SeqsUpTo(AllLines, MaxFileLines)]

\* results[k] = v
SetItem(d, k, v) == IF k \in DOMAIN d THEN [d EXCEPT ![k] = v] ELSE d @@ (k :> v)

\* mutant: a file that fails is logged and gets no entry
RecordOutcome_DropsFailed(res, log, k, outcome) ==
    IF outcome.status = "returned"
    THEN [results |-> SetItem(res, k, outcome.value), errorLog |-> log, exc |-> "none"]
    ELSE IF outcome.exc = "ParseError"
    THEN [results |-> res, errorLog |-> Append(log, k), exc |-> "none"]
    ELSE [results |-> res, errorLog |-> log, exc |-> outcome.exc]

\* the try / except ParseError around self.parse_session(file_path)
RecordOutcome(res, log, k, outcome) ==
    IF outcome.status = "returned"
    THEN [results |-> SetItem(res, k, outcome.value), errorLog |-> log, exc |-> "none"]
    ELSE IF outcome.exc = "ParseError"
    THEN [results |-> SetItem(res, k, <<>>), errorLog |-> Append(log, k), exc |-> "none"]
    ELSE [results |-> res, errorLog |-> log, exc |-> outcome.exc]

\* for file_path in session_files: self.parse_session(file_path) is entered
StartFile ==
    /\ pc = "idle"
    /\ pas.status = "pending"
    /\ fileIdx < Len(files)
    /\ fstatus' = files[fileIdx + 1].fstatus
    /\ lines' = files[fileIdx + 1].lines
    /\ pc' = "start"
    /\ pos' = 0
    /\ handle' = FALSE
    /\ yielded' = <<>>
    /\ genExc' = "none"
    /\ psf' = Pending(<<>>)
    /\ UNCHANGED <<pcs, ld>>
    /\ UNCHANGED <<sessionVars, walkVars, callVars, projectVars, allVars, gens>>

\* parse_session has returned or raised: the entry is written
RecordResult ==
    /\ pc \in {"exhausted", "raised"}
    /\ psf.status # "pending"
    /\ pas.status = "pending"
    /\ LET r == RecordOutcome(results, errorLog, fileIdx + 1, psf) IN
          /\ results' = r.results
          /\ errorLog' = r.errorLog
          /\ pas' = IF r.exc = "none" THEN pas ELSE Raised(r.exc, <<>>)
    /\ fileIdx' = fileIdx + 1
    /\ pc' = "idle"
    /\ UNCHANGED <<fstatus, lines, pos, handle, yielded, genExc, psf, pcs, ld>>
    /\ UNCHANGED <<sessionVars, walkVars, callVars, projectVars, files, gens>>

\* return results
AllReturns ==
    /\ pc = "idle"
    /\ pas.status = "pending"
    /\ fileIdx = Len(files)
    /\ pas' = Returned(results)
    /\ UNCHANGED <<files, fileIdx, results, errorLog>>
    /\ UNCHANGED <<parserVars, sessionVars, walkVars, callVars, projectVars, gens>>

InitAll ==
    /\ IdleParser
    /\ IdleSession
    /\ IdleWalk
    /\ IdleCalls
    /\ IdleProject
    /\ IdleGens
    /\ files \in SeqsUpTo(AllFiles, MaxFiles)
    /\ fileIdx = 0
    /\ results = <<>>
    /\ errorLog = <<>>
    /\ pas = Pending(<<>>)

NextAll ==
    \/ StartFile
    \/ CheckPath
    \/ OpenFile
    \/ OpenFails
    \/ ReadLine
    \/ ReadFails
    \/ EndOfFile
    \/ SessionFileReturns
    \/ SessionFileRaises
    \/ RecordResult
    \/ AllReturns

SpecAll == InitAll /\ [][NextAll]_vars

(***************************************************************************)
(* SpecGenerator: parse_jsonl_file driven by a consumer of its own, which  *)
(* may stop asking for records before the file is exhausted                *)
(***************************************************************************)
\* the consumer stops iterating: the generator stays suspended at its
\* yield, inside the with-block
ConsumerStops ==
    /\ pc = "loop"
    /\ yielded # <<>>
    /\ pc' = "suspended"
    /\ UNCHANGED <<fstatus, lines, pos, handle, yielded, genExc, psf, pcs, ld>>
    /\ UNCHANGED <<sessionVars, walkVars, restVars>>

\* close() or finalization of the suspended generator: GeneratorExit is
\* raised at the yield and the with-block closes the file
GeneratorClosed ==
    /\ pc = "suspended"
    /\ pc' = "closed"
    /\ handle' = FALSE
    /\ UNCHANGED <<fstatus, lines, pos, yielded, genExc, psf, pcs, ld>>
    /\ UNCHANGED <<sessionVars, walkVars, restVars>>

InitGenerator ==
    /\ fstatus \in {"missing", "not_file", "ok"}
    /\ lines \in (IF fstatus = "ok" THEN SeqsUpTo(AllLines, MaxLines) ELSE {<<>>})
    /\ pc = "start"
    /\ pos = 0
    /\ handle = FALSE
    /\ yielded = <<>>
    /\ genExc = "none"
    /\ psf = Pending(<<>>)
    /\ pcs = Pending(NoSession)
    /\ ld = Pending(NoSession)
    /\ IdleSession
    /\ IdleWalk
    /\ IdleRest

NextGenerator ==
    \/ CheckPath
    \/ OpenFile
    \/ OpenFails
    \/ ReadLine
    \/ ReadFails
    \/ EndOfFile
    \/ ConsumerStops
    \/ GeneratorClosed

SpecGenerator == InitGenerator /\ [][NextGenerator]_vars

(***************************************************************************)
(* SpecInterleave: several parse_jsonl_file generators over readable       *)
(* files, advanced in any interleaving by their consumers                  *)
(***************************************************************************)
GenIds == {1, 2}

\* a generator past its open(): its file, the lines consumed, the records
\* yielded; all of it local to the generator
Generator(ls) == [lines |-> ls, pos |-> 0, yielded |-> <<>>]

\* one iteration of the loop of parse_jsonl_file in generator g
GenStep(g) ==
    LET line == g.lines[g.pos + 1]
        e == TryBody(line) IN
    IF line.kind = "blank" THEN [g EXCEPT !.pos = @ + 1]
    ELSE IF e = "none"
    THEN [g EXCEPT !.pos = @ + 1, !.yielded = Append(@, ModelValidate(line.obj))]
    ELSE [g EXCEPT !.pos = @ + 1]

YieldedUuids(g) == {g.yielded[k].uuid : k \in DOMAIN g.yielded}

\* mutant: a module-level set of the uuids seen; a record whose uuid another
\* generator has yielded is dropped
StepGen_SharedSeen ==
    /\ pc = "idle"
    /\ \E i \in DOMAIN gens :
          /\ gens[i].pos < Len(gens[i].lines)
          /\ LET g == GenStep(gens[i])
                 seen == UNION {YieldedUuids(gens[j]) : j \in DOMAIN gens \ {i}} IN
             gens' = [gens EXCEPT ![i] =
                        IF YieldedUuids(g) \subseteq (YieldedUuids(gens[i]) \cup (UUIDs \ seen))
                        THEN g ELSE [g EXCEPT !.yielded = gens[i].yielded]]
    /\ UNCHANGED <<parserVars, sessionVars, walkVars, callVars, projectVars, allVars>>

\* the consumer of one of the generators asks for its next line
StepGen ==
    /\ pc = "idle"
    /\ \E i \in DOMAIN gens :
          /\ gens[i].pos < Len(gens[i].lines)
          /\ gens' = [gens EXCEPT ![i] = GenStep(gens[i])]
    /\ UNCHANGED <<parserVars, sessionVars, walkVars, callVars, projectVars, allVars>>

InitInterleave ==
    /\ IdleParser
    /\ IdleSession
    /\ IdleWalk
    /\ IdleCalls
    /\ IdleProject
    /\ IdleAll
    /\ gens \in [GenIds -> {Generator(ls) : ls \in SeqsUpTo(AllLines, MaxLines)}]

NextInterleave == StepGen

SpecInterleave == InitInterleave /\ [][NextInterleave]_vars

(***************************************************************************)
(* SpecOps: a session constructed directly, ParsedSession(session_id,      *)
(* messages, metadata), on which validate_session_integrity,               *)
(* get_main_chain and get_messages_by_role are called                      *)
(***************************************************************************)
\* mutant: only the session ids are compared, the message count is not
ValidateSessionIntegrity_IdsOnly(s) ==
    IF s.messages # <<>>
       /\ \E i \in DOMAIN s.messages : s.messages[i].session_id # s.messages[1].session_id
    THEN FALSE
    ELSE TRUE

\* models.py: every message is compared with messages[0], then the count
ValidateSessionIntegrity(s) ==
    IF s.messages # <<>>
       /\ \E i \in DOMAIN s.messages : s.messages[i].session_id # s.messages[1].session_id
    THEN FALSE
    ELSE s.metadata.total_messages = Len(s.messages)

\* mutant: the sidechain messages are kept instead of the others
RECURSIVE GetMainChain_Sidechains(_)
GetMainChain_Sidechains(msgs) ==
    IF msgs = <<>> THEN <<>>
    ELSE IF Head(msgs).is_sidechain
         THEN <<Head(msgs)>> \o GetMainChain_Sidechains(Tail(msgs))
         ELSE GetMainChain_Sidechains(Tail(msgs))

\* [msg for msg in self.messages if not msg.is_sidechain]
RECURSIVE GetMainChain(_)
GetMainChain(msgs) ==
    IF msgs = <<>> THEN <<>>
    ELSE IF ~Head(msgs).is_sidechain
         THEN <<Head(msgs)>> \o GetMainChain(Tail(msgs))
         ELSE GetMainChain(Tail(msgs))

\* mutant: the matching messages come out newest first
RECURSIVE GetMessagesByRole_Reversed(_, _)
GetMessagesByRole_Reversed(msgs, role) ==
    IF msgs = <<>> THEN <<>>
    ELSE IF Head(msgs).role = role
         THEN GetMessagesByRole_Reversed(Tail(msgs), role) \o <<Head(msgs)>>
         ELSE GetMessagesByRole_Reversed(Tail(msgs), role)

\* [msg for msg in self.messages if msg.message.role == role]
RECURSIVE GetMessagesByRole(_, _)
GetMessagesByRole(msgs, role) ==
    IF msgs = <<>> THEN <<>>
    ELSE IF Head(msgs).role = role
         THEN <<Head(msgs)>> \o GetMessagesByRole(Tail(msgs), role)
         ELSE GetMessagesByRole(Tail(msgs), role)

OpsRecords ==
    {MessageRecord(u, None, side, role, sid, None, <<TextBlock>>) :
        u \in {1, 2}, side \in BOOLEAN, role \in Roles, sid \in SessionIds}

ValidateCall ==
    /\ pc = "idle"
    /\ tpc = "idle"
    /\ verdict' = Some(ValidateSessionIntegrity(session))
    /\ UNCHANGED <<session_id, mainChain, byRole, ret>>
    /\ UNCHANGED <<parserVars, sessionVars, walkVars, projectVars, allVars, gens>>

GetMainChainCall ==
    /\ pc = "idle"
    /\ tpc = "idle"
    /\ mainChain' = Some(GetMainChain(session.messages))
    /\ UNCHANGED <<session_id, verdict, byRole, ret>>
    /\ UNCHANGED <<parserVars, sessionVars, walkVars, projectVars, allVars, gens>>

GetMessagesByRoleCall ==
    /\ pc = "idle"
    /\ tpc = "idle"
    /\ \E role \in Roles :
          byRole' = [byRole EXCEPT ![role] = Some(GetMessagesByRole(session.messages, role))]
    /\ UNCHANGED <<session_id, verdict, mainChain, ret>>
    /\ UNCHANGED <<parserVars, sessionVars, walkVars, projectVars, allVars, gens>>

InitOps ==
    /\ IdleParser
    /\ IdleWalk
    /\ IdleRest
    /\ records = <<>>
    /\ \E sid \in SessionIds, msgs \in SeqsUpTo(OpsRecords, MaxMsgs), n \in 0..MaxMsgs :
          session = ParsedSession(sid, msgs, EmptyTree,
                                  [DefaultMetadata EXCEPT !.total_messages = n])
    /\ meta = DefaultMetadata
    /\ metaCalled = FALSE

NextOps ==
    \/ ValidateCall
    \/ GetMainChainCall
    \/ GetMessagesByRoleCall

SpecOps == InitOps /\ [][NextOps]_vars

(***************************************************************************)
(* SpecProject: a Project over a list of sessions, whose aggregate         *)
(* properties are read.  The aggregation follows the Project Aggregator    *)
(* design (section 4.5 of the specification); a session contributes its    *)
(* metadata: total_cost (here in quarters of a dollar), tool_usage_count,  *)
(* session_start and session_end.                                          *)
(***************************************************************************)
ProjectSession(cost, tools, start, end) ==
    [metadata |-> [total_cost |-> cost, tool_usage_count |-> tools,
                   session_start |-> start, session_end |-> end]]

ToolCounts == {<<>>, ("bash" :> 2) @@ ("read" :> 1), ("read" :> 3)}

\* a session is undated, or starts no later than it ends
SessionDates == {<<None, None>>, <<Some(1), Some(2)>>, <<Some(2), Some(2)>>, <<Some(3), Some(5)>>}

ProjectSessions ==
    {ProjectSession(c, <<>>, None, None) : c \in {0, 3, 5, 12}}
    \cup {ProjectSession(0, t, None, None) : t \in ToolCounts}
    \cup {ProjectSession(0, <<>>, dt[1], dt[2]) : dt \in SessionDates}
    \cup {ProjectSession(5, ("read" :> 3), Some(3), Some(5))}

\* session.py: set(self.metadata.tool_usage_count.keys())
ToolsUsed(s) == DOMAIN s.metadata.tool_usage_count

\* mutant: the most expensive session instead of the sum
RECURSIVE ProjectTotalCost_Largest(_)
ProjectTotalCost_Largest(sessions) ==
    IF sessions = <<>> THEN 0
    ELSE Max(Head(sessions).metadata.total_cost, ProjectTotalCost_Largest(Tail(sessions)))

\* total_cost: sum of each session's metadata.total_cost
RECURSIVE ProjectTotalCost(_)
ProjectTotalCost(sessions) ==
    IF sessions = <<>> THEN 0
    ELSE Head(sessions).metadata.total_cost + ProjectTotalCost(Tail(sessions))

\* counts[tool] = counts.get(tool, 0) + n, for every tool of one session
RECURSIVE AddCounts(_, _, _)
AddCounts(counts, d, keys) ==
    IF keys = {} THEN counts
    ELSE LET k == CHOOSE x \in keys : TRUE IN
         AddCounts(IF k \in DOMAIN counts THEN [counts EXCEPT ![k] = @ + d[k]]
                   ELSE counts @@ (k :> d[k]),
                   d, keys \ {k})

\* mutant: a later session's count replaces an earlier one (dict.update)
RECURSIVE ProjectToolUsageCount_Overwrites(_, _)
ProjectToolUsageCount_Overwrites(sessions, counts) ==
    IF sessions = <<>> THEN counts
    ELSE LET d == Head(sessions).metadata.tool_usage_count IN
         ProjectToolUsageCount_Overwrites(Tail(sessions),
            [k \in DOMAIN counts \cup DOMAIN d |-> IF k \in DOMAIN d THEN d[k] ELSE counts[k]])

\* tool_usage_count: key-wise sum of the sessions' counts
RECURSIVE ProjectToolUsageCount(_, _)
ProjectToolUsageCount(sessions, counts) ==
    IF sessions = <<>> THEN counts
    ELSE LET d == Head(sessions).metadata.tool_usage_count IN
         ProjectToolUsageCount(Tail(sessions), AddCounts(counts, d, DOMAIN d))

\* tools_used: union of the sessions' tools_used
RECURSIVE ProjectToolsUsed(_)
ProjectToolsUsed(sessions) ==
    IF sessions = <<>> THEN {}
    ELSE ToolsUsed(Head(sessions)) \cup ProjectToolsUsed(Tail(sessions))

MinOf(S) == CHOOSE x \in S : \A y \in S : x <= y
MaxOf(S) == CHOOSE x \in S : \A y \in S : x >= y

SessionStarts(sessions) ==
    {sessions[i].metadata.session_start[1] :
        i \in {j \in DOMAIN sessions : sessions[j].metadata.session_start # None}}

SessionEnds(sessions) ==
    {sessions[i].metadata.session_end[1] :
        i \in {j \in DOMAIN sessions : sessions[j].metadata.session_end # None}}

\* first_session_date: earliest session start, None without a dated session
ProjectFirstSessionDate(sessions) ==
    IF SessionStarts(sessions) = {} THEN None ELSE Some(MinOf(SessionStarts(sessions)))

\* mutant: the latest session start is taken for the latest session end
ProjectLastSessionDate_LatestStart(sessions) ==
    IF SessionStarts(sessions) = {} THEN None ELSE Some(MaxOf(SessionStarts(sessions)))

\* last_session_date: latest session end, None without a dated session
ProjectLastSessionDate(sessions) ==
    IF SessionEnds(sessions) = {} THEN None ELSE Some(MaxOf(SessionEnds(sessions)))

\* total_duration: last_session_date - first_session_date, None when either
\* is missing
ProjectTotalDuration(sessions) ==
    LET first == ProjectFirstSessionDate(sessions)
        last == ProjectLastSessionDate(sessions) IN
    IF first # None /\ last # None THEN Some(last[1] - first[1]) ELSE None

Read(prop, value) == [prop |-> prop, value |-> value]

ProjectIdle == pc = "idle" /\ tpc = "idle"

ReadTotalCost ==
    /\ ProjectIdle
    /\ agg' = Read("total_cost", Some(ProjectTotalCost(project)))
    /\ UNCHANGED <<project, parserVars, sessionVars, walkVars, callVars, allVars, gens>>

ReadToolUsageCount ==
    /\ ProjectIdle
    /\ agg' = Read("tool_usage_count", Some(ProjectToolUsageCount(project, <<>>)))
    /\ UNCHANGED <<project, parserVars, sessionVars, walkVars, callVars, allVars, gens>>

ReadToolsUsed ==
    /\ ProjectIdle
    /\ agg' = Read("tools_used", Some(ProjectToolsUsed(project)))
    /\ UNCHANGED <<project, parserVars, sessionVars, walkVars, callVars, allVars, gens>>

ReadFirstSessionDate ==
    /\ ProjectIdle
    /\ agg' = Read("first_session_date", ProjectFirstSessionDate(project))
    /\ UNCHANGED <<project, parserVars, sessionVars, walkVars, callVars, allVars, gens>>

ReadLastSessionDate ==
    /\ ProjectIdle
    /\ agg' = Read("last_session_date", ProjectLastSessionDate(project))
    /\ UNCHANGED <<project, parserVars, sessionVars, walkVars, callVars, allVars, gens>>

ReadTotalDuration ==
    /\ ProjectIdle
    /\ agg' = Read("total_duration", ProjectTotalDuration(project))
    /\ UNCHANGED <<project, parserVars, sessionVars, walkVars, callVars, allVars, gens>>

InitProject ==
    /\ IdleParser
    /\ IdleSession
    /\ IdleWalk
    /\ IdleCalls
    /\ IdleAll
    /\ IdleGens
    /\ project \in SeqsUpTo(ProjectSessions, MaxSessions)
    /\ agg = NoRead

NextProject ==
    \/ ReadTotalCost
    \/ ReadToolUsageCount
    \/ ReadToolsUsed
    \/ ReadFirstSessionDate
    \/ ReadLastSessionDate
    \/ ReadTotalDuration

SpecProject == InitProject /\ [][NextProject]_vars

(***************************************************************************)
(* SpecCalls: a session constructed directly on which the operations of    *)
(* the public API are called, fields are assigned, a Message is made from  *)
(* a record, and SessionMetadata values are constructed                    *)
(***************************************************************************)
CallRecords ==
    {MessageRecord(1, None, FALSE, "assistant", "s1", cost, content) :
        cost \in {None, Some(1), Some(2)},
        content \in {<<TextBlock>>, <<ToolUseBlock("bash")>>}}

\* mutant: a message without cost contributes no entry
RECURSIVE CostByTurn_SkipsNone(_)
CostByTurn_SkipsNone(msgs) ==
    IF msgs = <<>> THEN <<>>
    ELSE (IF Head(msgs).cost_usd # None THEN <<Head(msgs).cost_usd[1]>> ELSE <<>>)
         \o CostByTurn_SkipsNone(Tail(msgs))

\* [message.cost_usd if message.cost_usd is not None else 0.0 for message in self.messages]
RECURSIVE CostByTurn(_)
CostByTurn(msgs) ==
    IF msgs = <<>> THEN <<>>
    ELSE <<IF Head(msgs).cost_usd # None THEN Head(msgs).cost_usd[1] ELSE 0>>
         \o CostByTurn(Tail(msgs))

CostByTurnCall ==
    /\ pc = "idle"
    /\ tpc = "idle"
    /\ ret' = Call("cost_by_turn", "none", Some(CostByTurn(session.messages)))
    /\ UNCHANGED <<session_id, verdict, mainChain, byRole>>
    /\ UNCHANGED <<parserVars, sessionVars, walkVars, projectVars, allVars, gens>>

\* record.model_dump(): a dict keyed by the field names, by_alias is False
ModelDump(record) ==
    [uuid |-> record.uuid, parent_uuid |-> record.parent_uuid,
     is_sidechain |-> record.is_sidechain, role |-> record.role,
     session_id |-> record.session_id, cost_usd |-> record.cost_usd,
     content |-> record.content, duration_ms |-> record.duration_ms,
     timestamp |-> record.timestamp]

\* Message.from_message_record: cls.model_validate(record.model_dump());
\* model_validate looks the fields up by their aliases
FromMessageRecord(record) ==
    LET data == ModelDump(record) IN
    IF SchemaError(data) \/ RangeError(data)
    THEN [exc |-> "ValidationError", value |-> None]
    ELSE [exc |-> "none", value |-> Some(ModelValidate(data))]

FromMessageRecordCall ==
    /\ pc = "idle"
    /\ tpc = "idle"
    /\ \E i \in DOMAIN session.messages :
          LET r == FromMessageRecord(session.messages[i]) IN
          ret' = Call("from_message_record", r.exc, r.value)
    /\ UNCHANGED <<session_id, verdict, mainChain, byRole>>
    /\ UNCHANGED <<parserVars, sessionVars, walkVars, projectVars, allVars, gens>>

\* mutant: the models are not frozen, the assignment takes place
SetAttr_Mutable(obj, field, value) ==
    [exc |-> "none", obj |-> [obj EXCEPT ![field] = value]]

\* obj.field = value on a model with frozen=True
SetAttr(obj, field, value) == [exc |-> "ValidationError", obj |-> obj]

\* an assignment to a field of the session, of its metadata, of one of its
\* records or of a content block of a record
SetAttrAttempt ==
    /\ pc = "idle"
    /\ tpc = "idle"
    /\ \/ LET r == SetAttr(session, "session_id", "s2") IN
             /\ session' = r.obj
             /\ ret' = Call("setattr", r.exc, Some("ParsedSession"))
       \/ \E field \in {"total_cost", "total_messages"} :
             LET r == SetAttr(session.metadata, field, 7) IN
             /\ session' = [session EXCEPT !.metadata = r.obj]
             /\ ret' = Call("setattr", r.exc, Some("SessionMetadata"))
       \/ \E i \in DOMAIN session.messages :
             LET r == SetAttr(session.messages[i], "is_sidechain", TRUE) IN
             /\ session' = [session EXCEPT !.messages[i] = r.obj]
             /\ ret' = Call("setattr", r.exc, Some("MessageRecord"))
       \/ \E i \in DOMAIN session.messages :
             LET r == SetAttr(session.messages[i].content[1], "name", "edited") IN
             /\ session' = [session EXCEPT !.messages[i].content[1] = r.obj]
             /\ ret' = Call("setattr", r.exc, Some("ContentBlock"))
    /\ UNCHANGED <<records, meta, metaCalled>>
    /\ UNCHANGED <<session_id, verdict, mainChain, byRole>>
    /\ UNCHANGED <<parserVars, walkVars, projectVars, allVars, gens>>

\* mutant: only total_cost carries the ge=0 constraint
SessionMetadataError_CostOnly(cost, count) ==
    IF cost < 0 THEN "ValidationError" ELSE "none"

\* total_cost: Field(ge=0.0), total_messages: Field(ge=0)
SessionMetadataError(cost, count) ==
    IF cost < 0 \/ count < 0 THEN "ValidationError" ELSE "none"

\* SessionMetadata(total_cost=cost, total_messages=count)
ConstructSessionMetadata ==
    /\ pc = "idle"
    /\ tpc = "idle"
    /\ \E cost \in {0 - 1, 0, 2}, count \in {0 - 1, 0, 1} :
          ret' = IF SessionMetadataError(cost, count) # "none"
                 THEN Call("SessionMetadata", SessionMetadataError(cost, count),
                           Some(<<cost, count>>))
                 ELSE Call("SessionMetadata", "none",
                           Some([DefaultMetadata EXCEPT !.total_cost = cost,
                                                        !.total_messages = count]))
    /\ UNCHANGED <<session_id, verdict, mainChain, byRole>>
    /\ UNCHANGED <<parserVars, sessionVars, walkVars, projectVars, allVars, gens>>

InitCalls ==
    /\ IdleParser
    /\ IdleWalk
    /\ IdleRest
    /\ records = <<>>
    /\ \E msgs \in SeqsUpTo(CallRecords, MaxMsgs) :
          session = ParsedSession("s1", msgs, EmptyTree, DefaultMetadata)
    /\ meta = DefaultMetadata
    /\ metaCalled = FALSE

NextCalls ==
    \/ ValidateCall
    \/ GetMainChainCall
    \/ GetMessagesByRoleCall
    \/ CalculateMetadataCall
    \/ CostByTurnCall
    \/ FromMessageRecordCall
    \/ SetAttrAttempt
    \/ ConstructSessionMetadata

SpecCalls == InitCalls /\ [][NextCalls]_vars

(***************************************************************************)
(* C11: the session id of an assembled session                             *)
(***************************************************************************)
Assembled == tpc = "walk" /\ session # NoSession

\* C11: a session assembled by a direct call carries the override when one
\* was given and the session_id of the first record otherwise; a session
\* assembled from a file carries the session_id of the first valid record
\* of the file, whatever lines were skipped before it.
C11_SessionIdFromOverrideOrFirstRecord ==
    /\ Assembled =>
          session.session_id = (IF session_id # None THEN session_id[1]
                                ELSE records[1].session_id)
    /\ pcs.status = "returned" =>
          pcs.value.session_id = ValidRecords(lines)[1].session_id
    /\ ld.status = "returned" =>
          ld.value.session_id = ValidRecords(lines)[1].session_id

C11_Witness ==
    /\ ld.status = "returned"
    /\ Len(lines) = MaxLines
    /\ lines[1].kind = "malformed"
    /\ ld.value.session_id = "s2"
    /\ \E i \in DOMAIN ld.value.messages : ld.value.messages[i].session_id = "s1"

(***************************************************************************)
(* C12, C13: validate_session_integrity                                    *)
(***************************************************************************)
AllCarrySessionId(s) ==
    \A i \in DOMAIN s.messages : s.messages[i].session_id = s.session_id

CountMatches(s) == s.metadata.total_messages = Len(s.messages)

\* C12: whenever some record's session_id differs from the session's own
\* session_id, validate_session_integrity has returned False.
C12_ForeignSessionIdIsInvalid ==
    (verdict # None /\ ~AllCarrySessionId(session)) => verdict = Some(FALSE)

\* C13: validate_session_integrity returns False whenever
\* metadata.total_messages differs from len(messages), True when every
\* record carries the session's id and the count matches (the empty session
\* with total_messages 0 included); the result is always a boolean, and no
\* step changes the session's messages or metadata.
C13_CountMismatchReportedOnly ==
    /\ [](verdict # None =>
            /\ verdict[1] \in BOOLEAN
            /\ ~CountMatches(session) => verdict = Some(FALSE)
            /\ (AllCarrySessionId(session) /\ CountMatches(session)) => verdict = Some(TRUE))
    /\ [][session' = session]_vars

C13_Witness ==
    /\ verdict = Some(FALSE)
    /\ Len(session.messages) = MaxMsgs
    /\ AllCarrySessionId(session)
    /\ ~CountMatches(session)

(***************************************************************************)
(* C14: calculate_metadata                                                 *)
(***************************************************************************)
\* C14: a call of calculate_metadata after an earlier one returns metadata
\* equal to the earlier result, and no call changes the session: neither
\* its messages nor its stored metadata.
C14_CalculateMetadataPureIdempotent ==
    [][/\ metaCalled => meta' = meta
       /\ session' = session]_vars

C14_Witness ==
    /\ metaCalled
    /\ Len(session.messages) = MaxMsgs
    /\ meta # session.metadata
    /\ session.metadata = DefaultMetadata

(***************************************************************************)
(* C15, C16, C17: the project aggregates                                   *)
(***************************************************************************)
SessionCosts(sessions) == [i \in DOMAIN sessions |-> sessions[i].metadata.total_cost]

\* C15: project.total_cost is the sum of metadata.total_cost over the
\* sessions of the project, 0 for a project without sessions; sessions
\* costing 1.25, 0.75 and 3.0 (5, 3 and 12 quarters) give 5.0 (20 quarters).
C15_ProjectTotalCostIsSum ==
    agg.prop = "total_cost" =>
        /\ agg.value = Some(SumSeq(SessionCosts(project)))
        /\ project = <<>> => agg.value = Some(0)
        /\ SessionCosts(project) = <<5, 3, 12>> => agg.value = Some(20)

C15_Witness ==
    /\ agg.prop = "total_cost"
    /\ SessionCosts(project) = <<5, 3, 12>>
    /\ agg.value = Some(20)

RECURSIVE SumOver(_, _)
SumOver(f, idx) ==
    IF idx = {} THEN 0
    ELSE LET i == CHOOSE x \in idx : TRUE IN f[i] + SumOver(f, idx \ {i})

SessionsWithTool(sessions, n) == {i \in DOMAIN sessions : n \in ToolsUsed(sessions[i])}

AllToolsUsed(sessions) == UNION {ToolsUsed(sessions[i]) : i \in DOMAIN sessions}

\* C16: a tool's count in the project's tool_usage_count is the sum of its
\* counts in the sessions that have it, the keys are the tools some session
\* has; tools_used is the union of the sessions' tool names, which is the
\* key set of the project's tool_usage_count.
C16_ToolUsageKeywiseSum ==
    /\ agg.prop = "tool_usage_count" =>
          /\ DOMAIN agg.value[1] = AllToolsUsed(project)
          /\ \A n \in DOMAIN agg.value[1] :
                agg.value[1][n] =
                    SumOver([i \in DOMAIN project |-> Get(project[i].metadata.tool_usage_count, n)],
                            SessionsWithTool(project, n))
    /\ agg.prop = "tools_used" =>
          /\ agg.value[1] = AllToolsUsed(project)
          /\ agg.value[1] = DOMAIN ProjectToolUsageCount(project, <<>>)

C16_Witness ==
    /\ agg.prop = "tool_usage_count"
    /\ Len(project) = MaxSessions
    /\ DOMAIN agg.value[1] = {"bash", "read"}
    /\ agg.value[1]["read"] = 4
    /\ agg.value[1]["bash"] = 2

Dated(sessions) == SessionStarts(sessions) # {} /\ SessionEnds(sessions) # {}

\* C17: with at least one dated session, first_session_date is the
\* earliest session start, last_session_date the latest session end, and
\* total_duration their difference, which is not negative; without a dated
\* session total_duration is zero or absent.
C17_ProjectDatesAndDuration ==
    /\ (agg.prop = "first_session_date" /\ Dated(project)) =>
          /\ agg.value # None
          /\ agg.value[1] \in SessionStarts(project)
          /\ \A t \in SessionStarts(project) : agg.value[1] <= t
    /\ (agg.prop = "last_session_date" /\ Dated(project)) =>
          /\ agg.value # None
          /\ agg.value[1] \in SessionEnds(project)
          /\ \A t \in SessionEnds(project) : agg.value[1] >= t
    /\ (agg.prop = "total_duration" /\ Dated(project)) =>
          /\ agg.value # None
          /\ agg.value[1] = MaxOf(SessionEnds(project)) - MinOf(SessionStarts(project))
          /\ agg.value[1] >= 0
    /\ (agg.prop = "total_duration" /\ ~Dated(project)) =>
          agg.value \in {None, Some(0)}

C17_Witness ==
    /\ agg.prop = "total_duration"
    /\ Len(project) = MaxSessions
    /\ project[1].metadata.session_start = Some(3)
    /\ project[2].metadata.session_start = None
    /\ project[3].metadata.session_start = Some(1)
    /\ agg.value = Some(4)

(***************************************************************************)
(* C18: parse_all_sessions                                                 *)
(***************************************************************************)
FileFailed(i) == \E k \in DOMAIN errorLog : errorLog[k] = i

\* C18 as stated: parse_all_sessions never aborts on a failing file, the
\* result has an entry for every discovered file, a file that did not fail
\* has its records as its entry, and the entry of a failed file differs
\* from that of every file that did not fail, so that it can be identified.
C18_FailedFilesIdentifiableInResult ==
    /\ pas.status # "raised"
    /\ pas.status = "returned" =>
          /\ DOMAIN pas.value = DOMAIN files
          /\ \A i \in DOMAIN files :
                ~FileFailed(i) => pas.value[i] = ValidRecords(files[i].lines)
          /\ \A i, j \in DOMAIN files :
                (FileFailed(i) /\ ~FileFailed(j)) => pas.value[i] # pas.value[j]

\* C18: parse_all_sessions never aborts on a failing file, the result has
\* an entry for every discovered file, a file that did not fail has its
\* valid records as its entry, and a failed file has the empty list and
\* one logger.error call.
C18_EveryFileHasAnEntry ==
    /\ pas.status # "raised"
    /\ pas.status = "returned" =>
          /\ DOMAIN pas.value = DOMAIN files
          /\ \A i \in DOMAIN files :
                /\ ~FileFailed(i) => pas.value[i] = ValidRecords(files[i].lines)
                /\ FileFailed(i) => pas.value[i] = <<>>
                /\ Cardinality({k \in DOMAIN errorLog : errorLog[k] = i}) <= 1

C18_Witness ==
    /\ pas.status = "returned"
    /\ Len(files) = MaxFiles
    /\ FileFailed(1)
    /\ ~FileFailed(MaxFiles)
    /\ pas.value[MaxFiles] # <<>>

(***************************************************************************)
(* C19, C20: get_main_chain, get_messages_by_role                          *)
(***************************************************************************)
\* res lists exactly the messages at the positions in idx, in their order
IsFilterOf(res, msgs, idx) ==
    /\ Len(res) = Cardinality(idx)
    /\ \A i \in idx : res[Cardinality({j \in idx : j <= i})] = msgs[i]

MainChainPositions(msgs) == {i \in DOMAIN msgs : ~msgs[i].is_sidechain}
SidechainPositions(msgs) == {i \in DOMAIN msgs : msgs[i].is_sidechain}
RolePositions(msgs, role) == {i \in DOMAIN msgs : msgs[i].role = role}

\* C19: get_main_chain returns exactly the messages with is_sidechain false,
\* in their original order, computed from the session's current messages;
\* their positions and those of the sidechain messages partition the
\* positions of session.messages.
C19_MainChainIsNonSidechainSubsequence ==
    mainChain # None =>
        /\ IsFilterOf(mainChain[1], session.messages, MainChainPositions(session.messages))
        /\ \A k \in DOMAIN mainChain[1] : ~mainChain[1][k].is_sidechain
        /\ Len(mainChain[1]) + Cardinality(SidechainPositions(session.messages))
              = Len(session.messages)

C19_Witness ==
    /\ mainChain # None
    /\ Len(session.messages) = MaxMsgs
    /\ session.messages[1].is_sidechain
    /\ Len(mainChain[1]) = MaxMsgs - 1

\* C20: get_messages_by_role(role) returns exactly the messages whose
\* embedded role equals role, in their original order; the positions
\* selected for "user" and for "assistant" are disjoint and together cover
\* every message.
C20_ByRoleFiltersAndPartitions ==
    /\ \A role \in Roles :
          byRole[role] # None =>
              IsFilterOf(byRole[role][1], session.messages,
                         RolePositions(session.messages, role))
    /\ (byRole["user"] # None /\ byRole["assistant"] # None) =>
          /\ RolePositions(session.messages, "user")
                \cap RolePositions(session.messages, "assistant") = {}
          /\ Len(byRole["user"][1]) + Len(byRole["assistant"][1]) = Len(session.messages)

C20_Witness ==
    /\ byRole["user"] # None
    /\ byRole["assistant"] # None
    /\ Len(byRole["user"][1]) = MaxMsgs
    /\ byRole["user"][1][1] # byRole["user"][1][2]

(***************************************************************************)
(* C21: Session.duration                                                   *)
(***************************************************************************)
\* C21: the duration of an assembled session is the timestamp of its last
\* message minus the timestamp of its first message, in list order and
\* whatever the sign; it is None only for a session without messages.
C21_DurationIsLastMinusFirst ==
    ret.op = "duration" =>
        /\ session.messages # <<>> =>
              /\ ret.value # None
              /\ ret.value[1] = session.messages[Len(session.messages)].timestamp
                                  - session.messages[1].timestamp
        /\ ret.value = None => session.messages = <<>>

C21_Witness ==
    /\ ret.op = "duration"
    /\ Len(session.messages) = MaxMsgs
    /\ session.messages[1].timestamp = 3
    /\ session.messages[MaxMsgs].timestamp = 1
    /\ ret.value = Some(0 - 2)

(***************************************************************************)
(* C22, C23: range constraints and the closed schema (SpecValidate)        *)
(***************************************************************************)
Absent(v) == v = None

InRange(obj) ==
    /\ Absent(obj.costUSD) \/ obj.costUSD[1] > 0
    /\ Absent(obj.durationMs) \/ obj.durationMs[1] > 0

KnownBlock(b) == DOMAIN b = {"type", "name"} /\ b.type \in {"text", "thinking", "tool_use"}

InSchema(obj) ==
    /\ DOMAIN obj = {"uuid", "parentUuid", "isSidechain", "role", "sessionId",
                     "costUSD", "content", "durationMs", "timestamp"}
    /\ \A i \in DOMAIN obj.content : KnownBlock(obj.content[i])

\* the lines among the first n that are objects satisfying P
LinesWhere(P(_), n) == {i \in 1..n : lines[i].kind = "object" /\ P(lines[i].obj)}

RecordsOfSession(s) == {s.messages[i] : i \in DOMAIN s.messages}

\* every record handed out at any layer of the load of one file
RecordsHandedOut ==
    {yielded[i] : i \in DOMAIN yielded}
    \cup {psf.value[i] : i \in DOMAIN psf.value}
    \cup RecordsOfSession(pcs.value) \cup RecordsOfSession(ld.value)

\* C22: a line whose costUSD or durationMs is present and zero or negative
\* yields no record: the records the generator has yielded are no more than
\* the consumed lines that are in range, and every record at every layer
\* has cost_usd absent or > 0 and duration_ms absent or > 0.
C22_NonPositiveCostOrDurationRejected ==
    /\ Len(yielded) <= Cardinality(LinesWhere(InRange, pos))
    /\ psf.status = "returned" => Len(psf.value) <= Cardinality(LinesWhere(InRange, Len(lines)))
    /\ \A m \in RecordsHandedOut :
          /\ Absent(m.cost_usd) \/ m.cost_usd[1] > 0
          /\ Absent(m.duration_ms) \/ m.duration_ms[1] > 0

C22_Witness ==
    /\ ld.status = "returned"
    /\ Len(lines) = MaxStrictLines
    /\ lines[1].kind = "object"
    /\ lines[1].obj.durationMs = Some(0)
    /\ lines[1].obj.costUSD = Some(2)
    /\ Len(ld.value.messages) = MaxStrictLines - 1
    /\ ld.value.messages[1].duration_ms = Some(5)

\* C23: a line whose object has an unknown field, at top level or in a
\* content block, or a content entry with an unknown type or of type
\* tool_result, yields no record: the records yielded are no more than the
\* consumed lines that are within the schema, and every record at every
\* layer has only known blocks.
C23_ClosedSchema ==
    /\ Len(yielded) <= Cardinality(LinesWhere(InSchema, pos))
    /\ psf.status = "returned" => Len(psf.value) <= Cardinality(LinesWhere(InSchema, Len(lines)))
    /\ \A m \in RecordsHandedOut :
          \A i \in DOMAIN m.content : KnownBlock(m.content[i])

C23_Witness ==
    /\ psf.status = "returned"
    /\ Len(lines) = MaxStrictLines
    /\ lines[1].kind = "object"
    /\ "gitBranch" \in DOMAIN lines[1].obj
    /\ lines[2].kind = "object"
    /\ lines[2].obj.content = <<ToolUseBlock("bash")>>
    /\ Len(psf.value) = MaxStrictLines - 1

(***************************************************************************)
(* C24, C25, C28, C30 (SpecCalls)                                          *)
(***************************************************************************)
\* C24: an assignment to a field of a content block, a MessageRecord, a
\* SessionMetadata or a ParsedSession fails with an error, and no step,
\* whether such an assignment or an operation of the public API, changes
\* the session: its messages, metadata and session_id stay as constructed.
C24_FrozenAfterConstruction ==
    [][/\ session' = session
       /\ ret'.op = "setattr" => ret'.exc = "ValidationError"]_vars

C24_Witness ==
    /\ ret.op = "setattr"
    /\ ret.value = Some("ContentBlock")
    /\ ret.exc = "ValidationError"
    /\ metaCalled
    /\ verdict # None
    /\ mainChain # None

MetadataValues ==
    {session.metadata, meta, pcs.value.metadata, ld.value.metadata}
    \cup (IF ret.op = "SessionMetadata" /\ ret.exc = "none" THEN {ret.value[1]} ELSE {})

\* C25: constructing SessionMetadata with a negative total_cost or a
\* negative total_messages fails, with zero it succeeds; no SessionMetadata
\* value has a negative total_cost or total_messages.
C25_NoNegativeSessionMetadata ==
    /\ \A md \in MetadataValues : md.total_cost >= 0 /\ md.total_messages >= 0
    /\ (ret.op = "SessionMetadata" /\ ret.exc # "none") =>
          (ret.value[1][1] < 0 \/ ret.value[1][2] < 0)

C25_Witness ==
    /\ ret.op = "SessionMetadata"
    /\ ret.exc = "ValidationError"
    /\ ret.value = Some(<<0, 0 - 1>>)

\* C28: Message.from_message_record(record) returns, for every valid
\* record, a Message whose fields equal those of the record.
C28_FromMessageRecordKeepsData ==
    ret.op = "from_message_record" =>
        /\ ret.exc = "none"
        /\ ret.value # None
        /\ \E i \in DOMAIN session.messages : ret.value[1] = session.messages[i]

\* C30: cost_by_turn has one entry per message, the i-th being the cost_usd
\* of the i-th message or 0 when it has none, and the entries sum to the
\* total_cost calculate_metadata computes for the same messages.
C30_CostByTurnMatchesTotal ==
    ret.op = "cost_by_turn" =>
        /\ Len(ret.value[1]) = Len(session.messages)
        /\ \A i \in DOMAIN session.messages :
              ret.value[1][i] = (IF session.messages[i].cost_usd = None THEN 0
                                 ELSE session.messages[i].cost_usd[1])
        /\ SumSeq(ret.value[1]) = CalculateMetadata(session.messages).total_cost
        /\ metaCalled => SumSeq(ret.value[1]) = meta.total_cost

C30_Witness ==
    /\ ret.op = "cost_by_turn"
    /\ metaCalled
    /\ Len(session.messages) = MaxMsgs
    /\ session.messages[1].cost_usd = None
    /\ session.messages[MaxMsgs].cost_usd = Some(2)
    /\ SumSeq(ret.value[1]) = 2

(***************************************************************************)
(* C26: the file handle of parse_jsonl_file                                *)
(***************************************************************************)
\* C26 as stated: once parsing of the file has ended, by completion, by an
\* exception, or by the consumer having stopped, no handle is open.
C26_NoHandleOnceParsingEnded ==
    pc \in {"exhausted", "raised", "suspended", "closed"} => ~handle

\* C26: once the generator has finished, by exhausting the file, by raising
\* or by being closed, no handle is open; the handle is open only while
\* the generator is inside its loop, running or suspended at a yield.
C26_HandleReleasedWhenGeneratorFinishes ==
    /\ pc \in {"exhausted", "raised", "closed"} => ~handle
    /\ handle => pc \in {"loop", "suspended"}

C26_Witness ==
    /\ pc = "raised"
    /\ genExc = "ParseError"
    /\ pos = MaxLines - 1
    /\ Len(yielded) >= 1
    /\ ~handle

(***************************************************************************)
(* C27: no state shared between parses                                     *)
(***************************************************************************)
\* C27: whatever the interleaving, each generator has yielded the records
\* of the valid lines among those it has consumed, which is what parsing
\* its file alone yields; two generators that have finished files of equal
\* content have yielded equal record sequences.
C27_ParsesAreIndependent ==
    /\ \A i \in DOMAIN gens :
          gens[i].yielded = ValidRecords(SubSeq(gens[i].lines, 1, gens[i].pos))
    /\ \A i, j \in DOMAIN gens :
          (/\ gens[i].lines = gens[j].lines
           /\ gens[i].pos = Len(gens[i].lines)
           /\ gens[j].pos = Len(gens[j].lines)) => gens[i].yielded = gens[j].yielded

C27_Witness ==
    /\ gens # <<>>
    /\ gens[1].lines = gens[2].lines
    /\ gens[1].pos = MaxLines
    /\ gens[2].pos = MaxLines
    /\ Len(gens[1].yielded) = MaxLines
    /\ gens[1].yielded[1].uuid # gens[1].yielded[2].uuid

(***************************************************************************)
(* C29: a readable file without a valid record                             *)
(***************************************************************************)
\* C29: when the file exists and is read to its end without yielding a
\* record, parse_complete_session and load do not return a session: both
\* raise a ParseError; a session that is returned has at least one message.
C29_NoValidRecordIsParseError ==
    /\ (psf.status = "returned" /\ psf.value = <<>>) =>
          /\ pcs.status # "returned"
          /\ ld.status # "returned"
          /\ pcs.status = "raised" => pcs.exc = "ParseError"
          /\ ld.status = "raised" => ld.exc = "ParseError"
    /\ pcs.status = "returned" => pcs.value.messages # <<>>
    /\ ld.status = "returned" => ld.value.messages # <<>>

C29_Witness ==
    /\ fstatus = "ok"
    /\ Len(lines) = MaxLines
    /\ lines[1].kind = "blank"
    /\ lines[2].kind = "object"
    /\ pc = "exhausted"
    /\ genExc = "none"
    /\ psf = Returned(<<>>)
    /\ ld.status = "raised"
    /\ ld.exc = "ParseError"

====
